---- MODULE Spec2Model ----
(***************************************************************************)
(* Model of the user-account REST backend: the JWT middlewares             *)
(* (authenticate, authorize, authorizeRole, generateToken) and the         *)
(* UserService operations with their e-mail verification and password      *)
(* reset tokens stored on the user document.                               *)
(*                                                                         *)
(* Three specifications share the variables:                               *)
(*   SpecAuth  the middleware chain fed with issued, tampered and          *)
(*             malformed bearer tokens while the clock advances;           *)
(*   Spec      the UserService operations run by concurrent requests,      *)
(*             each split at the awaits that touch the user collection;    *)
(*   SpecE2E   one client going through register / verify / login and      *)
(*             then presenting the login token to the protected routes.    *)
(***************************************************************************)
EXTENDS Integers, Sequences, FiniteSets, TLC

VARIABLES
    now,          \* Date.now(), in milliseconds
    ticks,        \* how often the clock has advanced
    issued,       \* session tokens made by generateToken, with what they were made from
    req,          \* the HTTP request going through the middleware chain
    res,          \* the answer to it
    users,        \* the User collection
    nextOid,      \* the number of the next document created
    nextNonce,    \* the number of the next crypto.randomBytes(32) value
    outbox,       \* the e-mails the transport delivered
    calls,        \* the UserService call each request is in, and where
    last,         \* the call that answered last, with its answer
    redeemCount,  \* per token value, how many redemptions reported success
    verifiedBy    \* the ids whose verifyEmail reported success

(***************************************************************************)
(* JavaScript values: numbers, strings (sequences of characters), NaN and  *)
(* undefined.  === never identifies values of different types.             *)
(***************************************************************************)
Num(n) == [t |-> "number", v |-> n]

Str(s) == [t |-> "string", v |-> s]

NaN == [t |-> "NaN", v |-> 0]

Undefined == [t |-> "undefined", v |-> 0]

StrictEquals(a, b) == a.t = b.t /\ a.t # "NaN" /\ a.v = b.v

Digits == <<"0", "1", "2", "3", "4", "5", "6", "7", "8", "9">>

IsDigit(c) == \E i \in 1..10 : Digits[i] = c

DigitValue(c) == (CHOOSE i \in 1..10 : Digits[i] = c) - 1

RECURSIVE SkipWhitespace(_)
SkipWhitespace(s) ==
    IF s # <<>> /\ Head(s) = " " THEN SkipWhitespace(Tail(s)) ELSE s

RECURSIVE LeadingDigits(_, _)
LeadingDigits(s, acc) ==
    IF s # <<>> /\ IsDigit(Head(s))
    THEN LeadingDigits(Tail(s), 10 * acc + DigitValue(Head(s)))
    ELSE acc

(* parseInt(string) with the default radix: leading blanks are skipped, an *)
(* optional sign is read, then the longest prefix of decimal digits; what  *)
(* follows the digits is ignored; no digit at all gives NaN.               *)
ParseInt(s) ==
    LET t == SkipWhitespace(s)
        signed == t # <<>> /\ Head(t) \in {"+", "-"}
        u == IF signed THEN Tail(t) ELSE t
        n == LeadingDigits(u, 0)
    IN  IF u = <<>> \/ ~IsDigit(Head(u)) THEN NaN
        ELSE IF signed /\ Head(t) = "-" THEN Num(0 - n) ELSE Num(n)

(***************************************************************************)
(* Time.  `now` is Date.now() in milliseconds; jsonwebtoken reads the      *)
(* clock in whole seconds.                                                 *)
(***************************************************************************)
SecondMs == 1000

HourMs == 60 * 60 * 1000

DayMs == 24 * 60 * 60 * 1000

ClockTimestamp(ms) == ms \div SecondMs

(* expiresIn: '24h' in seconds *)
SessionTTL == 86400

MaxTicks == 2

MaxSvcTicks == 1

MaxIssued == 1

(***************************************************************************)
(* jsonwebtoken.  A token is well formed or not; a well formed one carries *)
(* a payload and a signature.  HS256 is an ideal MAC: a signature is the   *)
(* pair of the key and the message it was computed over.                   *)
(***************************************************************************)
JWT_SECRET == "JWT_SECRET"

NoPayload == [id |-> Undefined, email |-> "", role |-> "", iat |-> 0, exp |-> 0]

Mac(secret, payload) == [key |-> secret, msg |-> payload]

NoSignature == Mac("", NoPayload)

Garbage == [wf |-> FALSE, payload |-> NoPayload, sig |-> NoSignature]

(* jwt.sign(claims, secret, {expiresIn}) at clock second `clock` *)
JwtSign(claims, secret, expiresIn, clock) ==
    LET payload == [id |-> claims.id, email |-> claims.email, role |-> claims.role,
                    iat |-> clock, exp |-> clock + expiresIn]
    IN  [wf |-> TRUE, payload |-> payload, sig |-> Mac(secret, payload)]

(* jwt.verify(token, secret) at clock second `clock`: structure, then the  *)
(* signature, then the expiry.                                             *)
JwtVerify(token, secret, clock) ==
    IF ~token.wf THEN [ok |-> FALSE, error |-> "JsonWebTokenError", decoded |-> NoPayload]
    ELSE IF token.sig # Mac(secret, token.payload)
    THEN [ok |-> FALSE, error |-> "JsonWebTokenError", decoded |-> NoPayload]
    ELSE IF clock >= token.payload.exp
    THEN [ok |-> FALSE, error |-> "TokenExpiredError", decoded |-> NoPayload]
    ELSE [ok |-> TRUE, error |-> "", decoded |-> token.payload]

(* jwt.decode(token): the payload without any check *)
JwtDecode(token, secret, clock) ==
    IF ~token.wf THEN [ok |-> FALSE, error |-> "JsonWebTokenError", decoded |-> NoPayload]
    ELSE [ok |-> TRUE, error |-> "", decoded |-> token.payload]

(* generateToken(userId, email, role) *)
generateToken_1h(userId, email, role, ms) ==
    JwtSign([id |-> userId, email |-> email, role |-> role], JWT_SECRET,
            3600, ClockTimestamp(ms))

generateToken(userId, email, role, ms) ==
    JwtSign([id |-> userId, email |-> email, role |-> role], JWT_SECRET,
            SessionTTL, ClockTimestamp(ms))

(***************************************************************************)
(* The middlewares as functions of what they read from the request.  Each  *)
(* either calls next() or answers with a status and a message.             *)
(***************************************************************************)
Respond(status, message) ==
    [next |-> FALSE, status |-> status, message |-> message,
     userId |-> Undefined, userEmail |-> "", userRole |-> ""]

CallNext(userId, userEmail, userRole) ==
    [next |-> TRUE, status |-> 0, message |-> "",
     userId |-> userId, userEmail |-> userEmail, userRole |-> userRole]

(* The Authorization header: absent, or a prefix followed by a token.      *)
NoHeader == [present |-> FALSE, prefix |-> "", token |-> Garbage]

Header(prefix, token) == [present |-> TRUE, prefix |-> prefix, token |-> token]

(* authHeader.startsWith('Bearer '), and authHeader.substring(7) *)
StartsWithBearer(header) == header.prefix = "Bearer "

Substring7(header) == header.token

(* authenticate with every verification error answered alike *)
authenticate_oneError(header, ms) ==
    IF ~header.present \/ ~StartsWithBearer(header)
    THEN Respond(401, "Token no proporcionado")
    ELSE LET v == JwtVerify(Substring7(header), JWT_SECRET, ClockTimestamp(ms))
         IN  IF v.ok
             THEN CallNext(v.decoded.id, v.decoded.email, v.decoded.role)
             ELSE Respond(401, "Token inválido")

(* authenticate reading the claims without verifying the token *)
authenticate_decode(header, ms) ==
    IF ~header.present \/ ~StartsWithBearer(header)
    THEN Respond(401, "Token no proporcionado")
    ELSE LET v == JwtDecode(Substring7(header), JWT_SECRET, ClockTimestamp(ms))
         IN  IF v.ok
             THEN CallNext(v.decoded.id, v.decoded.email, v.decoded.role)
             ELSE Respond(401, "Token inválido")

(* authenticate looking the subject of the token up in the collection *)
authenticate_lookup(header, ms) ==
    IF ~header.present \/ ~StartsWithBearer(header)
    THEN Respond(401, "Token no proporcionado")
    ELSE LET v == JwtVerify(Substring7(header), JWT_SECRET, ClockTimestamp(ms))
         IN  IF v.ok /\ \E u \in users : Str(u.id) = v.decoded.id /\ u.email = v.decoded.email
             THEN CallNext(v.decoded.id, v.decoded.email, v.decoded.role)
             ELSE IF ~v.ok /\ v.error = "TokenExpiredError"
             THEN Respond(401, "Token expirado")
             ELSE Respond(401, "Token inválido")

authenticate(header, ms) ==
    IF ~header.present \/ ~StartsWithBearer(header)
    THEN Respond(401, "Token no proporcionado")
    ELSE LET v == JwtVerify(Substring7(header), JWT_SECRET, ClockTimestamp(ms))
         IN  IF v.ok
             THEN CallNext(v.decoded.id, v.decoded.email, v.decoded.role)
             ELSE IF v.error = "TokenExpiredError"
             THEN Respond(401, "Token expirado")
             ELSE Respond(401, "Token inválido")

(* authorize: req.userRole === 'admin', else req.userId !== parseInt(id)   *)
authorize(userId, userRole, paramsId) ==
    IF userRole = "admin" THEN CallNext(userId, "", userRole)
    ELSE IF ~StrictEquals(userId, ParseInt(paramsId))
    THEN Respond(403, "No tienes permiso para acceder a este recurso")
    ELSE CallNext(userId, "", userRole)

(* authorizeRole(requiredRole) *)
(* `Solo ${requiredRole}s pueden acceder a este recurso` *)
SoloRole(requiredRole) ==
    CASE requiredRole = "admin" -> "Solo admins pueden acceder a este recurso"
      [] requiredRole = "moderator" -> "Solo moderators pueden acceder a este recurso"
      [] OTHER -> "Solo users pueden acceder a este recurso"

(* authorizeRole with the comparison left out *)
authorizeRole_any(requiredRole, userRole) ==
    IF userRole = "" THEN Respond(401, "Token inválido o sin role")
    ELSE CallNext(Undefined, "", userRole)

authorizeRole(requiredRole, userRole) ==
    IF userRole = "" THEN Respond(401, "Token inválido o sin role")
    ELSE IF userRole # requiredRole
    THEN Respond(403, SoloRole(requiredRole))
    ELSE CallNext(Undefined, "", userRole)

(***************************************************************************)
(* The router: each route is the chain of its handlers, the controller     *)
(* last.                                                                   *)
(***************************************************************************)
Routes == {"GET /profile/me", "PUT /profile/me", "GET /", "GET /:id",
           "PUT /:id", "DELETE /:id"}

(* the router with authorize left off the routes by id *)
Chain_noAuthorize(route) ==
    CASE route = "GET /profile/me" -> <<"authenticate", "getProfile">>
      [] route = "PUT /profile/me" -> <<"authenticate", "updateProfile">>
      [] route = "GET /"           -> <<"authenticate", "authorizeRole", "getAllUsers">>
      [] route = "GET /:id"        -> <<"getUserById">>
      [] route = "PUT /:id"        -> <<"authenticate", "updateUser">>
      [] route = "DELETE /:id"     -> <<"authenticate", "deleteUser">>

Chain(route) ==
    CASE route = "GET /profile/me" -> <<"authenticate", "getProfile">>
      [] route = "PUT /profile/me" -> <<"authenticate", "updateProfile">>
      [] route = "GET /"           -> <<"authenticate", "authorizeRole", "getAllUsers">>
      [] route = "GET /:id"        -> <<"getUserById">>
      [] route = "PUT /:id"        -> <<"authenticate", "authorize", "updateUser">>
      [] route = "DELETE /:id"     -> <<"authenticate", "authorize", "deleteUser">>

Controllers == {"getProfile", "updateProfile", "getAllUsers", "getUserById",
                "updateUser", "deleteUser"}

HasIdParam(route) == route \in {"GET /:id", "PUT /:id", "DELETE /:id"}

NoRes == [status |-> 0, message |-> ""]

NoReq == [route |-> "", idx |-> 0, header |-> NoHeader, id |-> <<>>, at |-> 0,
          userId |-> Undefined, userEmail |-> "", userRole |-> "", invoked |-> "",
          passed |-> {}, by |-> ""]

(* the handler the request is waiting for *)
Stage(r) ==
    IF r.idx = 0 THEN "idle"
    ELSE IF r.idx > Len(Chain(r.route)) THEN "responded"
    ELSE Chain(r.route)[r.idx]

(* `passed` holds the handlers that called next(), `by` the one that answered *)
Finished(r) == [r EXCEPT !.idx = Len(Chain(r.route)) + 1, !.by = Stage(r)]

Passed(r) == [r EXCEPT !.idx = @ + 1, !.passed = @ \cup {Stage(r)}]

(***************************************************************************)
(* Values the requests are drawn from.                                     *)
(***************************************************************************)
(* a MongoDB ObjectId as the 24 hexadecimal characters of user.id *)
ObjectIdHex(n) ==
    <<"6", "5", "f", "0", "c", "1", "a", "2", "b", "3", "d", "4",
      "e", "5", "f", "6", "0", "7", "0", "0", "0", "0", "0">> \o <<Digits[n + 1]>>

Emails == {"alice@example.com", "bob@example.com"}

Roles == {"user", "admin", "moderator"}

(* ids a token may carry: a number, a stored user.id *)
TokenIds == {Num(1), Str(ObjectIdHex(1))}

(* :id path parameters, always strings *)
PathIds == {<<"1">>, <<"1", "a">>, ObjectIdHex(1), ObjectIdHex(2)}

(* Authorization headers: none, another scheme, no blank after Bearer, or  *)
(* 'Bearer ' followed by a token                                           *)
Headers(tokens) ==
    {NoHeader, Header("Basic ", Garbage), Header("Bearer", Garbage)}
        \cup {Header("Bearer ", t) : t \in tokens}

(* what a client can build from an issued token without the secret *)
Tampered(token) ==
    LET admin == [token.payload EXCEPT !.role = "admin"]
        longer == [token.payload EXCEPT !.exp = token.payload.exp + SessionTTL]
    IN  { [token EXCEPT !.payload = admin],
          [token EXCEPT !.payload = longer],
          [token EXCEPT !.payload = admin, !.sig = Mac("attacker", admin)],
          [token EXCEPT !.sig = NoSignature] }

IssuedTokens == {i.token : i \in issued}

Presentable == IssuedTokens \cup UNION {Tampered(t) : t \in IssuedTokens} \cup {Garbage}

AuthJumps == {500, DayMs - 500}

(***************************************************************************)
(* Actions of the middleware chain.                                        *)
(***************************************************************************)
vars == <<now, ticks, issued, req, res, users, nextOid, nextNonce, outbox, calls,
          last, redeemCount, verifiedBy>>

svcVars == <<users, nextOid, nextNonce, outbox, calls, last, redeemCount, verifiedBy>>

(* The clock advances.  A chain of handlers runs to its end in one turn of  *)
(* the event loop, and reads the clock once, in jwt.verify: time passes     *)
(* between requests.                                                       *)
Tick(d, max) ==
    /\ Stage(req) = "idle"
    /\ ticks < max
    /\ now' = now + d
    /\ ticks' = ticks + 1
    /\ UNCHANGED <<issued, req, res, svcVars>>

(* generateToken(userId, email, role) called at `now` *)
GenerateToken(userId, email, role) ==
    /\ Stage(req) = "idle"
    /\ Cardinality(issued) < MaxIssued
    /\ issued' = issued \cup
         {[token |-> generateToken(userId, email, role, now), userId |-> userId,
           email |-> email, role |-> role, at |-> ClockTimestamp(now)]}
    /\ UNCHANGED <<now, ticks, req, res, svcVars>>

(* A request arrives and is handed to the first handler of its route.  The *)
(* middlewares keep nothing from one request to the next, so one request,  *)
(* arriving at any moment, is followed through its chain.                  *)
Receive(route, header, id) ==
    /\ Stage(req) = "idle"
    /\ req' = [NoReq EXCEPT !.route = route, !.idx = 1, !.header = header,
                            !.id = IF HasIdParam(route) THEN id ELSE <<>>]
    /\ res' = NoRes
    /\ UNCHANGED <<now, ticks, issued, svcVars>>

Authenticate ==
    /\ Stage(req) = "authenticate"
    /\ LET r == authenticate(req.header, now)
       IN  IF r.next
           THEN /\ req' = [Passed(req) EXCEPT !.at = ClockTimestamp(now),
                                      !.userId = r.userId, !.userEmail = r.userEmail,
                                      !.userRole = r.userRole]
                /\ res' = res
           ELSE /\ req' = [Finished(req) EXCEPT !.at = ClockTimestamp(now)]
                /\ res' = [status |-> r.status, message |-> r.message]
    /\ UNCHANGED <<now, ticks, issued, svcVars>>

Authorize ==
    /\ Stage(req) = "authorize"
    /\ LET r == authorize(req.userId, req.userRole, req.id)
       IN  IF r.next
           THEN req' = Passed(req) /\ res' = res
           ELSE req' = Finished(req) /\ res' = [status |-> r.status, message |-> r.message]
    /\ UNCHANGED <<now, ticks, issued, svcVars>>

AuthorizeRole ==
    /\ Stage(req) = "authorizeRole"
    /\ LET r == authorizeRole("admin", req.userRole)
       IN  IF r.next
           THEN req' = Passed(req) /\ res' = res
           ELSE req' = Finished(req) /\ res' = [status |-> r.status, message |-> r.message]
    /\ UNCHANGED <<now, ticks, issued, svcVars>>

(* the controller of the route runs; its answer is the service's *)
Controller ==
    /\ Stage(req) \in Controllers
    /\ req' = [Finished(req) EXCEPT !.invoked = Stage(req)]
    /\ res' = [status |-> 200, message |-> Stage(req)]
    /\ UNCHANGED <<now, ticks, issued, svcVars>>

(***************************************************************************)
(* The User collection and the UserService.                                *)
(*                                                                         *)
(* A document holds the fields of userSchema the service reads or writes.  *)
(* crypto.randomBytes(32) values are numbered: two draws never agree.      *)
(* user.save() writes the fields the call assigned, to the document with   *)
(* the same _id, and nothing else.                                         *)
(***************************************************************************)
Null == -1

MaxNonce == 2

(* the requests in flight at once *)
Procs == {"r1", "r2"}

Passwords == {"Secret123!", "Changed456!"}

Nonces == 1..MaxNonce

(* one identity asking for a token again has one value more *)
AllNonces == 1..(MaxNonce + 1)

(* bcrypt.hash(password, 10) and bcrypt.compare(password, hash) *)
BcryptHash(password) == <<"bcrypt", password>>

BcryptCompare(password, hash) == hash = BcryptHash(password)

NoUser ==
    [id |-> <<>>, email |-> "", password |-> <<>>, role |-> "",
     isEmailVerified |-> FALSE,
     emailVerificationToken |-> Null, emailVerificationTokenExpires |-> Null,
     passwordResetToken |-> Null, passwordResetTokenExpires |-> Null]

(* User.findOne(filter): the document the filter matches, or null *)
FindOne(docs, Filter(_)) ==
    IF \E u \in docs : Filter(u) THEN CHOOSE u \in docs : Filter(u) ELSE NoUser

(* new CreateUserDTO(req.body): the role of the body is not copied *)
CreateUserDTO(body) == [email |-> body.email, password |-> body.password, role |-> ""]

(* new UserResponseDTO(user) *)
UserResponseDTO(user) == [id |-> user.id, email |-> user.email]

NoDTO == UserResponseDTO(NoUser)

(* what a call gives back: a value returned, or an error thrown with a status *)
Return(status, message, user, token) ==
    [ok |-> TRUE, status |-> status, message |-> message, user |-> user, token |-> token]

Throw(message, status) ==
    [ok |-> FALSE, status |-> status, message |-> message, user |-> NoDTO, token |-> Garbage]

NoResult == [ok |-> FALSE, status |-> 0, message |-> "", user |-> NoDTO, token |-> Garbage]

(* errors that are no AppError: a duplicate key, a document gone at save() *)
ServerError(name) == Throw(name, 500)

(* the unique index on email: a write that would give the document `id`   *)
(* an e-mail another document holds is refused                             *)
DuplicateKey_noIndex(docs, id, email) == FALSE

DuplicateKey(docs, id, email) == \E u \in docs : u.id # id /\ u.email = email

(* createUser: the document handed to User.create *)
createUserDocument(dto, oid, nonce, ms) ==
    [id |-> ObjectIdHex(oid), email |-> dto.email, password |-> BcryptHash(dto.password),
     role |-> IF dto.role # "" THEN dto.role ELSE "user",
     isEmailVerified |-> FALSE,
     emailVerificationToken |-> nonce,
     emailVerificationTokenExpires |-> ms + 24 * 60 * 60 * 1000,
     passwordResetToken |-> Null, passwordResetTokenExpires |-> Null]

(* verifyEmail: the filter of the query, and the fields assigned *)
verifyEmailFilter_inclusive(u, token, ms) ==
    /\ u.emailVerificationToken = token
    /\ u.emailVerificationTokenExpires # Null
    /\ u.emailVerificationTokenExpires >= ms

verifyEmailFilter(u, token, ms) ==
    /\ u.emailVerificationToken = token
    /\ u.emailVerificationTokenExpires # Null
    /\ u.emailVerificationTokenExpires > ms

verifyEmailAssign_keepToken(u) == [u EXCEPT !.isEmailVerified = TRUE]

verifyEmailAssign(u) ==
    [u EXCEPT !.isEmailVerified = TRUE,
              !.emailVerificationToken = Null,
              !.emailVerificationTokenExpires = Null]

(* resendVerificationEmail: what the lookup decides *)
resendVerificationEmailCheck_uniform(user) ==
    IF user = NoUser THEN Return(200, "Email de verificación reenviado", NoDTO, Garbage)
    ELSE IF user.isEmailVerified THEN Throw("El email ya está verificado", 400)
    ELSE NoResult

resendVerificationEmailCheck(user) ==
    IF user = NoUser THEN Throw("Usuario no encontrado", 404)
    ELSE IF user.isEmailVerified THEN Throw("El email ya está verificado", 400)
    ELSE NoResult

(* resendVerificationEmail leaving the stored token as it was *)
resendVerificationEmailAssign_keep(u, nonce, expires) == u

resendVerificationEmailAssign(u, nonce, expires) ==
    [u EXCEPT !.emailVerificationToken = nonce, !.emailVerificationTokenExpires = expires]

(* login that does not compare the password *)
login_anyPassword(user, password, ms) ==
    IF user = NoUser THEN Throw("Credenciales inválidas", 401)
    ELSE IF ~user.isEmailVerified
    THEN Throw("Por favor verifica tu email antes de iniciar sesión", 403)
    ELSE Return(200, "Autenticación exitosa", UserResponseDTO(user),
                generateToken(Str(user.id), user.email, user.role, ms))

(* login without the verified-email gate *)
login_noGate(user, password, ms) ==
    IF user = NoUser THEN Throw("Credenciales inválidas", 401)
    ELSE IF ~BcryptCompare(password, user.password)
    THEN Throw("Credenciales inválidas", 401)
    ELSE Return(200, "Autenticación exitosa", UserResponseDTO(user),
                generateToken(Str(user.id), user.email, user.role, ms))

(* login that compares the password before it looks at the verified flag *)
login_passwordFirst(user, password, ms) ==
    IF user = NoUser THEN Throw("Credenciales inválidas", 401)
    ELSE IF ~BcryptCompare(password, user.password)
    THEN Throw("Credenciales inválidas", 401)
    ELSE IF ~user.isEmailVerified
    THEN Throw("Por favor verifica tu email antes de iniciar sesión", 403)
    ELSE Return(200, "Autenticación exitosa", UserResponseDTO(user),
                generateToken(Str(user.id), user.email, user.role, ms))

(* login(email, password, generateToken) once the lookup has answered *)
login(user, password, ms) ==
    IF user = NoUser THEN Throw("Credenciales inválidas", 401)
    ELSE IF ~user.isEmailVerified
    THEN Throw("Por favor verifica tu email antes de iniciar sesión", 403)
    ELSE IF ~BcryptCompare(password, user.password)
    THEN Throw("Credenciales inválidas", 401)
    ELSE Return(200, "Autenticación exitosa", UserResponseDTO(user),
                generateToken(Str(user.id), user.email, user.role, ms))

(* requestPasswordReset: the answer, the same on both paths *)
requestPasswordResetAbsent_404(email) == Throw("Usuario no encontrado", 404)

requestPasswordResetAbsent(email) ==
    Return(200, "Si el email existe, recibirás un enlace de reset", NoDTO, Garbage)

requestPasswordResetSent(email) ==
    Return(200, "Si el email existe, recibirás un enlace de reset", NoDTO, Garbage)

(* a write that keeps the later of the stored expiry and its own *)
requestPasswordResetAssign_laterExpiry(u, nonce, expires) ==
    [u EXCEPT !.passwordResetToken = nonce,
              !.passwordResetTokenExpires = IF @ > expires THEN @ ELSE expires]

requestPasswordResetAssign(u, nonce, expires) ==
    [u EXCEPT !.passwordResetToken = nonce, !.passwordResetTokenExpires = expires]

(* resetPassword: the filter of the query, and the fields assigned *)
resetPasswordFilter_noExpiry(u, token, ms) == u.passwordResetToken = token

resetPasswordFilter(u, token, ms) ==
    /\ u.passwordResetToken = token
    /\ u.passwordResetTokenExpires # Null
    /\ u.passwordResetTokenExpires > ms

(* a reset that takes the mailbox for verified as well *)
resetPasswordAssign_verifies(u, newPassword) ==
    [u EXCEPT !.password = BcryptHash(newPassword),
              !.passwordResetToken = Null,
              !.passwordResetTokenExpires = Null,
              !.isEmailVerified = TRUE]

resetPasswordAssign(u, newPassword) ==
    [u EXCEPT !.password = BcryptHash(newPassword),
              !.passwordResetToken = Null,
              !.passwordResetTokenExpires = Null]

(***************************************************************************)
(* The calls.  A call is split where it awaits the collection: the lookup, *)
(* then the write.  Between the two, other requests run.                   *)
(***************************************************************************)
Idle ==
    [op |-> "", pc |-> "idle", email |-> "", password |-> "", token |-> Null,
     uid |-> <<>>, newToken |-> Null, newExpires |-> Null, result |-> NoResult,
     role |-> "", loaded |-> ""]

Free(p) == calls[p].pc = "idle"

Start(p, op) == [Idle EXCEPT !.op = op]

(* an answered call: the operation, the token or the password presented,  *)
(* the document the lookup found, and the answer                           *)
Done(c, result) ==
    [c EXCEPT !.pc = "done", !.email = "",
              !.password = IF c.op = "login" THEN c.password ELSE "",
              !.newToken = Null, !.newExpires = Null, !.loaded = "",
              !.result = result]

(* the call of request p answers: the request is over *)
Answer(p, c, result) ==
    /\ calls' = [calls EXCEPT ![p] = Idle]
    /\ last' = Done(c, result)

(* the call of request p goes on to its next await *)
Await(p, c) ==
    /\ calls' = [calls EXCEPT ![p] = c]
    /\ last' = last

Exists(uid) == \E u \in users : u.id = uid

(* the stored document with this id, or none *)
Stored(uid) == FindOne(users, LAMBDA u : u.id = uid)

(* user.save(): assign(u) written to the document with this _id *)
Save(uid, Assign(_)) == {IF u.id = uid THEN Assign(u) ELSE u : u \in users}

(* the transport delivers the message or fails; the send methods then      *)
(* return true or false, and the callers do not look at it                 *)
Send(to, kind, token, delivered) ==
    IF delivered THEN outbox \cup {[to |-> to, kind |-> kind, token |-> token]} ELSE outbox

(* EmailService.sendVerificationEmail / sendPasswordResetEmail: sendMail   *)
(* inside try/catch; the method returns true, or false from the catch      *)
sendVerificationEmail(delivered) == [value |-> delivered, threw |-> FALSE]

sendPasswordResetEmail_throws(delivered) == [value |-> delivered, threw |-> ~delivered]

sendPasswordResetEmail(delivered) == [value |-> delivered, threw |-> FALSE]

(* await EmailService.send...(): an error thrown there would end the call, *)
(* the value returned is not looked at                                     *)
AfterSend(sent, result) == IF sent.threw THEN ServerError("sendMail") ELSE result

PendingCreates == Cardinality({p \in Procs : calls[p].op = "createUser" /\ calls[p].pc = "create"})

(* register -> createUser: the lookup by e-mail *)
CreateUserFind(p, body, max) ==
    /\ Free(p)
    /\ nextNonce + PendingCreates <= max
    /\ LET dto == CreateUserDTO(body)
           existing == FindOne(users, LAMBDA u : u.email = dto.email)
           c == [Start(p, "createUser") EXCEPT !.email = dto.email, !.password = dto.password,
                                               !.role = body.role]
       IN  IF existing # NoUser
           THEN Answer(p, c, Throw("El email ya está registrado", 409))
           ELSE Await(p, [c EXCEPT !.pc = "create"])
    /\ UNCHANGED <<now, ticks, issued, req, res, users, nextOid, nextNonce, outbox,
                   redeemCount, verifiedBy>>

(* createUser: User.create under the unique index on email, then the mail *)
CreateUserCreate(p, delivered) ==
    /\ calls[p].op = "createUser" /\ calls[p].pc = "create"
    /\ LET c == calls[p]
           dto == CreateUserDTO([email |-> c.email, password |-> c.password, role |-> c.role])
           doc == createUserDocument(dto, nextOid, nextNonce, now)
       IN  IF DuplicateKey(users, doc.id, c.email)
           THEN /\ Answer(p, c, ServerError("E11000 duplicate key"))
                /\ UNCHANGED <<users, nextOid, nextNonce, outbox>>
           ELSE /\ users' = users \cup {doc}
                /\ nextOid' = nextOid + 1
                /\ nextNonce' = nextNonce + 1
                /\ outbox' = Send(c.email, "verification", nextNonce, delivered)
                /\ Answer(p, [c EXCEPT !.uid = doc.id],
                          AfterSend(sendVerificationEmail(delivered),
                                    Return(201, "Usuario registrado correctamente",
                                           UserResponseDTO(doc), Garbage)))
    /\ UNCHANGED <<now, ticks, issued, req, res, redeemCount, verifiedBy>>

(* verifyEmail: the lookup by token and expiry *)
VerifyEmailFind(p, token) ==
    /\ Free(p)
    /\ LET user == FindOne(users, LAMBDA u : verifyEmailFilter(u, token, now))
           c == [Start(p, "verifyEmail") EXCEPT !.token = token]
       IN  IF user = NoUser
           THEN Answer(p, c, Throw("Token de verificación inválido o expirado", 400))
           ELSE Await(p, [c EXCEPT !.pc = "save", !.uid = user.id])
    /\ UNCHANGED <<now, ticks, issued, req, res, users, nextOid, nextNonce, outbox,
                   redeemCount, verifiedBy>>

(* verifyEmail: user.save() and the answer *)
VerifyEmailSave(p) ==
    /\ calls[p].op = "verifyEmail" /\ calls[p].pc = "save"
    /\ LET c == calls[p]
       IN  IF Exists(c.uid)
           THEN /\ users' = Save(c.uid, verifyEmailAssign)
                /\ redeemCount' = [redeemCount EXCEPT ![c.token] = @ + 1]
                /\ verifiedBy' = verifiedBy \cup {c.uid}
                /\ Answer(p, c, Return(200, "Email verificado correctamente", NoDTO, Garbage))
           ELSE /\ Answer(p, c, ServerError("DocumentNotFoundError"))
                /\ UNCHANGED <<users, redeemCount, verifiedBy>>
    /\ UNCHANGED <<now, ticks, issued, req, res, nextOid, nextNonce, outbox>>

(* resendVerificationEmail: the lookup by e-mail, then the new token *)
ResendVerificationEmailFind(p, email, max) ==
    /\ Free(p)
    /\ LET user == FindOne(users, LAMBDA u : u.email = email)
           c == [Start(p, "resendVerificationEmail") EXCEPT !.email = email, !.uid = user.id]
           early == resendVerificationEmailCheck(user)
       IN  IF early # NoResult
           THEN /\ Answer(p, c, early)
                /\ UNCHANGED nextNonce
           ELSE /\ nextNonce <= max
                /\ nextNonce' = nextNonce + 1
                /\ Await(p, [c EXCEPT !.pc = "save", !.newToken = nextNonce,
                                !.newExpires = now + 24 * 60 * 60 * 1000])
    /\ UNCHANGED <<now, ticks, issued, req, res, users, nextOid, outbox,
                   redeemCount, verifiedBy>>

(* resendVerificationEmail: user.save(), the mail and the answer *)
ResendVerificationEmailSave(p, delivered) ==
    /\ calls[p].op = "resendVerificationEmail" /\ calls[p].pc = "save"
    /\ LET c == calls[p]
       IN  IF Exists(c.uid)
           THEN /\ users' = Save(c.uid,
                       LAMBDA u : resendVerificationEmailAssign(u, c.newToken, c.newExpires))
                /\ outbox' = Send(c.email, "verification", c.newToken, delivered)
                /\ Answer(p, c, AfterSend(sendVerificationEmail(delivered),
                                 Return(200, "Email de verificación reenviado", NoDTO, Garbage)))
           ELSE /\ Answer(p, c, ServerError("DocumentNotFoundError"))
                /\ UNCHANGED <<users, outbox>>
    /\ UNCHANGED <<now, ticks, issued, req, res, nextOid, nextNonce, redeemCount, verifiedBy>>

(* login: the lookup, the checks and the token.  A client that means to    *)
(* present the token keeps it, while it holds fewer than MaxIssued.        *)
Login(p, email, password, keep) ==
    /\ Free(p)
    /\ LET user == FindOne(users, LAMBDA u : u.email = email)
           c == [Start(p, "login") EXCEPT !.email = email, !.password = password,
                                          !.uid = user.id]
           r == login(user, password, now)
       IN  /\ Answer(p, c, r)
           /\ issued' =
                IF keep /\ r.ok /\ Cardinality(issued) < MaxIssued
                THEN issued \cup {[token |-> r.token, userId |-> Str(user.id),
                                   email |-> user.email, role |-> user.role,
                                   at |-> ClockTimestamp(now)]}
                ELSE issued
    /\ UNCHANGED <<now, ticks, req, res, users, nextOid, nextNonce, outbox,
                   redeemCount, verifiedBy>>

(* requestPasswordReset: the lookup by e-mail, then the new token *)
RequestPasswordResetFind(p, email, max) ==
    /\ Free(p)
    /\ LET user == FindOne(users, LAMBDA u : u.email = email)
           c == [Start(p, "requestPasswordReset") EXCEPT !.email = email, !.uid = user.id]
       IN  IF user = NoUser
           THEN /\ Answer(p, c, requestPasswordResetAbsent(email))
                /\ UNCHANGED nextNonce
           ELSE /\ nextNonce <= max
                /\ nextNonce' = nextNonce + 1
                /\ Await(p, [c EXCEPT !.pc = "save", !.newToken = nextNonce,
                                !.newExpires = now + 60 * 60 * 1000])
    /\ UNCHANGED <<now, ticks, issued, req, res, users, nextOid, outbox,
                   redeemCount, verifiedBy>>

(* requestPasswordReset: user.save(), the mail and the answer *)
RequestPasswordResetSave(p, delivered) ==
    /\ calls[p].op = "requestPasswordReset" /\ calls[p].pc = "save"
    /\ LET c == calls[p]
       IN  IF Exists(c.uid)
           THEN /\ users' = Save(c.uid,
                       LAMBDA u : requestPasswordResetAssign(u, c.newToken, c.newExpires))
                /\ outbox' = Send(c.email, "reset", c.newToken, delivered)
                /\ Answer(p, c, AfterSend(sendPasswordResetEmail(delivered),
                                          requestPasswordResetSent(c.email)))
           ELSE /\ Answer(p, c, ServerError("DocumentNotFoundError"))
                /\ UNCHANGED <<users, outbox>>
    /\ UNCHANGED <<now, ticks, issued, req, res, nextOid, nextNonce, redeemCount, verifiedBy>>

(* resetPassword: the lookup by token and expiry *)
ResetPasswordFind(p, token, newPassword) ==
    /\ Free(p)
    /\ LET user == FindOne(users, LAMBDA u : resetPasswordFilter(u, token, now))
           c == [Start(p, "resetPassword") EXCEPT !.token = token, !.password = newPassword]
       IN  IF user = NoUser
           THEN Answer(p, c, Throw("Token de reset inválido o expirado", 400))
           ELSE Await(p, [c EXCEPT !.pc = "save", !.uid = user.id])
    /\ UNCHANGED <<now, ticks, issued, req, res, users, nextOid, nextNonce, outbox,
                   redeemCount, verifiedBy>>

(* resetPassword: the hash, user.save() and the answer *)
ResetPasswordSave(p) ==
    /\ calls[p].op = "resetPassword" /\ calls[p].pc = "save"
    /\ LET c == calls[p]
       IN  IF Exists(c.uid)
           THEN /\ users' = Save(c.uid, LAMBDA u : resetPasswordAssign(u, c.password))
                /\ redeemCount' = [redeemCount EXCEPT ![c.token] = @ + 1]
                /\ Answer(p, c, Return(200, "Contraseña cambiada correctamente", NoDTO, Garbage))
           ELSE /\ Answer(p, c, ServerError("DocumentNotFoundError"))
                /\ UNCHANGED <<users, redeemCount>>
    /\ UNCHANGED <<now, ticks, issued, req, res, nextOid, nextNonce, outbox, verifiedBy>>

(* new UpdateUserDTO(req.body): email when the body has one; the DTO has   *)
(* no role, whatever the body carries                                      *)
UpdateUserDTO_copyRole(body) == [email |-> body.email, role |-> body.role]

UpdateUserDTO(body) == [email |-> body.email, role |-> ""]

(* updateUser: the e-mail is looked up when the DTO has one that is not    *)
(* the document's                                                          *)
updateUserLooksUp(user, dto) == dto.email # "" /\ dto.email # user.email

updateUserConflict_none(existing) == NoResult

updateUserConflict(existing) ==
    IF existing # NoUser THEN Throw("El email ya está en uso", 409) ELSE NoResult

(* Object.assign(user, updateUserDTO) and user.save(): the paths whose     *)
(* value is not the one the document was loaded with are written           *)
(* an update that takes a new e-mail for unverified *)
updateUserAssign_unverify(u, dto, loaded) ==
    [u EXCEPT !.email = IF dto.email # "" /\ dto.email # loaded THEN dto.email ELSE @,
              !.isEmailVerified = IF dto.email # "" /\ dto.email # loaded THEN FALSE ELSE @]

updateUserAssign(u, dto, loaded) ==
    [u EXCEPT !.email = IF dto.email # "" /\ dto.email # loaded THEN dto.email ELSE @,
              !.role = IF dto.role # "" THEN dto.role ELSE @]

(* the answer of updateUser and of updateProfile *)
Updated(op, user) ==
    Return(200, IF op = "updateProfile" THEN "Perfil actualizado correctamente"
                ELSE "Usuario actualizado correctamente", UserResponseDTO(user), Garbage)

Updates == {"updateUser", "updateProfile"}

(* the bodies of PUT /:id and PUT /profile/me *)
UpdateBodies(roles) == [email : Emails \cup {""}, role : roles]

(* updateUser / updateProfile: User.findById *)
UpdateUserFind(p, op, userId, body) ==
    /\ Free(p)
    /\ LET user == FindOne(users, LAMBDA u : u.id = userId)
           dto == UpdateUserDTO(body)
           c == [Start(p, op) EXCEPT !.email = body.email, !.role = body.role,
                                     !.uid = user.id, !.loaded = user.email]
       IN  IF user = NoUser
           THEN Answer(p, c, Throw("Usuario no encontrado", 404))
           ELSE Await(p, [c EXCEPT !.pc = IF updateUserLooksUp(user, dto)
                                          THEN "check" ELSE "save"])
    /\ UNCHANGED <<now, ticks, issued, req, res, users, nextOid, nextNonce, outbox,
                   redeemCount, verifiedBy>>

(* updateUser: User.findOne({email}) *)
UpdateUserCheck(p) ==
    /\ calls[p].op \in Updates /\ calls[p].pc = "check"
    /\ LET c == calls[p]
           early == updateUserConflict(FindOne(users, LAMBDA u : u.email = c.email))
       IN  IF early # NoResult
           THEN Answer(p, c, early)
           ELSE Await(p, [c EXCEPT !.pc = "save"])
    /\ UNCHANGED <<now, ticks, issued, req, res, users, nextOid, nextNonce, outbox,
                   redeemCount, verifiedBy>>

(* updateUser: Object.assign, user.save() under the unique index, the answer *)
UpdateUserSave(p) ==
    /\ calls[p].op \in Updates /\ calls[p].pc = "save"
    /\ LET c == calls[p]
           dto == UpdateUserDTO([email |-> c.email, role |-> c.role])
           written == updateUserAssign(Stored(c.uid), dto, c.loaded)
       IN  IF ~Exists(c.uid)
           THEN /\ Answer(p, c, ServerError("DocumentNotFoundError"))
                /\ UNCHANGED users
           ELSE IF DuplicateKey(users, c.uid, written.email)
           THEN /\ Answer(p, c, ServerError("E11000 duplicate key"))
                /\ UNCHANGED users
           ELSE /\ users' = Save(c.uid, LAMBDA u : updateUserAssign(u, dto, c.loaded))
                /\ Answer(p, c, Updated(c.op, written))
    /\ UNCHANGED <<now, ticks, issued, req, res, nextOid, nextNonce, outbox,
                   redeemCount, verifiedBy>>

(* deleteUser: User.findByIdAndDelete, one operation of the collection *)
DeleteUser(p, userId) ==
    /\ Free(p)
    /\ LET user == FindOne(users, LAMBDA u : u.id = userId)
           c == [Start(p, "deleteUser") EXCEPT !.uid = userId]
       IN  IF user = NoUser
           THEN /\ Answer(p, c, Throw("Usuario no encontrado", 404))
                /\ UNCHANGED users
           ELSE /\ users' = users \ {user}
                /\ Answer(p, c, Return(200, "Usuario eliminado correctamente",
                                       UserResponseDTO(user), Garbage))
    /\ UNCHANGED <<now, ticks, issued, req, res, nextOid, nextNonce, outbox,
                   redeemCount, verifiedBy>>

SvcJumps == {HourMs, DayMs}

(* the bodies of POST /api/v1/users: role is one of the enum, or left out *)
Bodies(roles) == [email : Emails, password : {"Secret123!"}, role : roles]

(* The calls of one request: `keep` says whether the client keeps the      *)
(* token of a login, Transport what the mail transport may do (deliver:    *)
(* TRUE, fail: FALSE), `roles` the roles the registration bodies ask for.  *)
Service(p, keep, Transport, roles) ==
    \/ \E body \in Bodies(roles) : CreateUserFind(p, body, MaxNonce)
    \/ \E delivered \in Transport : CreateUserCreate(p, delivered)
    \/ \E token \in Nonces : VerifyEmailFind(p, token)
    \/ VerifyEmailSave(p)
    \/ \E email \in Emails : ResendVerificationEmailFind(p, email, MaxNonce)
    \/ \E delivered \in Transport : ResendVerificationEmailSave(p, delivered)
    \/ \E email \in Emails, password \in Passwords : Login(p, email, password, keep)
    \/ \E email \in Emails : RequestPasswordResetFind(p, email, MaxNonce)
    \/ \E delivered \in Transport : RequestPasswordResetSave(p, delivered)
    \/ \E token \in Nonces, password \in Passwords : ResetPasswordFind(p, token, password)
    \/ ResetPasswordSave(p)

Init ==
    /\ now = 0
    /\ ticks = 0
    /\ issued = {}
    /\ req = NoReq
    /\ res = NoRes
    /\ users = {}
    /\ nextOid = 1
    /\ nextNonce = 1
    /\ outbox = {}
    /\ calls = [p \in Procs |-> Idle]
    /\ last = Idle
    /\ redeemCount = [n \in AllNonces |-> 0]
    /\ verifiedBy = {}

NextAuth ==
    \/ \E d \in AuthJumps : Tick(d, MaxTicks)
    \/ \E id \in TokenIds, r \in {"user", "admin"} :
          GenerateToken(id, "alice@example.com", r)
    \/ \E route \in Routes, id \in PathIds, h \in Headers(Presentable) :
          Receive(route, h, id)
    \/ Authenticate
    \/ Authorize
    \/ AuthorizeRole
    \/ Controller

SpecAuth == Init /\ [][NextAuth]_vars

(* The access-control middlewares as functions of the request: authorize   *)
(* or authorizeRole(requiredRole) is handed a request with the identity    *)
(* an earlier handler attached, or with none.                              *)
Guards == {"authorize", "authorizeRole"}

GuardRoute(guard) == IF guard = "authorize" THEN "PUT /:id" ELSE "GET /"

ApplyGuard(guard, requiredRole, userId, userRole, id) ==
    /\ LET r == IF guard = "authorize" THEN authorize(userId, userRole, id)
                ELSE authorizeRole(requiredRole, userRole)
           at == [NoReq EXCEPT !.route = GuardRoute(guard), !.idx = 2,
                               !.id = IF guard = "authorize" THEN id ELSE <<>>,
                               !.userId = userId, !.userRole = userRole,
                               !.passed = {"authenticate"}]
       IN  IF r.next
           THEN req' = Passed(at) /\ res' = NoRes
           ELSE req' = Finished(at) /\ res' = [status |-> r.status, message |-> r.message]
    /\ UNCHANGED <<now, ticks, issued, svcVars>>

NextGuards ==
    \/ \E guard \in Guards, requiredRole \in Roles, userId \in TokenIds \cup {Undefined},
          userRole \in Roles \cup {""}, id \in PathIds :
           ApplyGuard(guard, requiredRole, userId, userRole, id)
    \/ Controller

SpecGuards == Init /\ [][NextGuards]_vars

Next ==
    \/ \E d \in SvcJumps : Tick(d, MaxSvcTicks)
    \/ \E p \in Procs : Service(p, FALSE, {TRUE}, {""})

Spec == Init /\ [][Next]_vars

(* one client: its calls one after the other, the mail transport failing   *)
(* or not, and then a request carrying the token its login gave it         *)
NextE2E ==
    \/ \E d \in SvcJumps : Tick(d, MaxSvcTicks)
    \/ Stage(req) = "idle" /\ Service("r1", TRUE, BOOLEAN, Roles \cup {""})
    \/ \E route \in Routes, id \in {ObjectIdHex(1), ObjectIdHex(2)},
          h \in {Header("Bearer ", t) : t \in IssuedTokens} : Receive(route, h, id)
    \/ Authenticate
    \/ Authorize
    \/ AuthorizeRole
    \/ Controller

SpecE2E == Init /\ [][NextE2E]_vars

(* the life of the tokens of one identity: it registers, asks for          *)
(* verification and reset tokens again, and redeems them, one call after   *)
(* the other, while the clock advances                                     *)
TokenCalls(p) ==
    \/ CreateUserFind(p, [email |-> "alice@example.com", password |-> "Secret123!",
                          role |-> ""], MaxNonce + 1)
    \/ CreateUserCreate(p, TRUE)
    \/ \E token \in AllNonces : VerifyEmailFind(p, token)
    \/ VerifyEmailSave(p)
    \/ ResendVerificationEmailFind(p, "alice@example.com", MaxNonce + 1)
    \/ ResendVerificationEmailSave(p, TRUE)
    \/ \E password \in Passwords : Login(p, "alice@example.com", password, FALSE)
    \/ RequestPasswordResetFind(p, "alice@example.com", MaxNonce + 1)
    \/ RequestPasswordResetSave(p, TRUE)
    \/ \E token \in AllNonces, password \in Passwords : ResetPasswordFind(p, token, password)
    \/ ResetPasswordSave(p)

NextTokens ==
    \/ \E d \in SvcJumps : Tick(d, MaxSvcTicks)
    \/ TokenCalls("r1")

SpecTokens == Init /\ [][NextTokens]_vars

(* one identity registers; concurrent requests ask for reset tokens for it *)
(* and redeem them while the clock advances                                *)
ResetCalls(p) ==
    \/ CreateUserFind(p, [email |-> "alice@example.com", password |-> "Secret123!",
                          role |-> ""], MaxNonce + 1)
    \/ CreateUserCreate(p, TRUE)
    \/ RequestPasswordResetFind(p, "alice@example.com", MaxNonce + 1)
    \/ RequestPasswordResetSave(p, TRUE)
    \/ \E token \in AllNonces : ResetPasswordFind(p, token, "Changed456!")
    \/ ResetPasswordSave(p)

NextResets ==
    \/ \E d \in SvcJumps : Tick(d, MaxSvcTicks)
    \/ \E p \in Procs : ResetCalls(p)

SpecResets == Init /\ [][NextResets]_vars

(* one identity opens a session and then changes: its e-mail is updated,   *)
(* its password reset, the identity deleted; requests carry the token of   *)
(* the session all along                                                   *)
SessionCalls(p) ==
    \/ CreateUserFind(p, [email |-> "alice@example.com", password |-> "Secret123!",
                          role |-> ""], MaxNonce)
    \/ CreateUserCreate(p, TRUE)
    \/ \E token \in Nonces : VerifyEmailFind(p, token)
    \/ VerifyEmailSave(p)
    \/ Login(p, "alice@example.com", "Secret123!", TRUE)
    \/ UpdateUserFind(p, "updateUser", ObjectIdHex(1),
                      [email |-> "bob@example.com", role |-> ""])
    \/ UpdateUserCheck(p)
    \/ UpdateUserSave(p)
    \/ \E email \in Emails : RequestPasswordResetFind(p, email, MaxNonce)
    \/ RequestPasswordResetSave(p, TRUE)
    \/ \E token \in Nonces : ResetPasswordFind(p, token, "Changed456!")
    \/ ResetPasswordSave(p)
    \/ DeleteUser(p, ObjectIdHex(1))

NextSession ==
    \/ \E d \in SvcJumps : Tick(d, MaxSvcTicks)
    \/ Stage(req) = "idle" /\ SessionCalls("r1")
    \/ \E route \in {"GET /", "GET /profile/me", "PUT /:id"}, h \in {Header("Bearer ", t) : t \in IssuedTokens} :
          Receive(route, h, ObjectIdHex(1))
    \/ Authenticate
    \/ Authorize
    \/ AuthorizeRole
    \/ Controller

SpecSession == Init /\ [][NextSession]_vars

(* one identity registers and is verified while concurrent requests ask    *)
(* for new verification mails, change its e-mail and delete it             *)
VerifiedCalls(p) ==
    \/ CreateUserFind(p, [email |-> "alice@example.com", password |-> "Secret123!",
                          role |-> ""], MaxNonce)
    \/ CreateUserCreate(p, TRUE)
    \/ \E token \in Nonces : VerifyEmailFind(p, token)
    \/ VerifyEmailSave(p)
    \/ \E email \in Emails : ResendVerificationEmailFind(p, email, MaxNonce)
    \/ ResendVerificationEmailSave(p, TRUE)
    \/ \E op \in Updates, email \in Emails :
          UpdateUserFind(p, op, ObjectIdHex(1), [email |-> email, role |-> ""])
    \/ UpdateUserCheck(p)
    \/ UpdateUserSave(p)
    \/ DeleteUser(p, ObjectIdHex(1))

NextVerified == \E p \in Procs : VerifiedCalls(p)

SpecVerified == Init /\ [][NextVerified]_vars

(* two identities register; verification and reset tokens are redeemed,   *)
(* one call after the other                                                *)
FrameCalls(p) ==
    \/ \E body \in Bodies({""}) : CreateUserFind(p, body, MaxNonce + 1)
    \/ CreateUserCreate(p, TRUE)
    \/ \E token \in AllNonces : VerifyEmailFind(p, token)
    \/ VerifyEmailSave(p)
    \/ \E email \in Emails : RequestPasswordResetFind(p, email, MaxNonce + 1)
    \/ RequestPasswordResetSave(p, TRUE)
    \/ \E token \in AllNonces : ResetPasswordFind(p, token, "Changed456!")
    \/ ResetPasswordSave(p)
    \/ \E email \in Emails, password \in Passwords : Login(p, email, password, FALSE)

NextFrame ==
    \/ \E d \in SvcJumps : Tick(d, MaxSvcTicks)
    \/ FrameCalls("r1")

SpecFrame == Init /\ [][NextFrame]_vars

(* registrations and updates of concurrent requests *)
UpdateCalls(p, roles) ==
    \/ \E op \in Updates, id \in {ObjectIdHex(1), ObjectIdHex(2)}, body \in UpdateBodies(roles) :
          UpdateUserFind(p, op, id, body)
    \/ UpdateUserCheck(p)
    \/ UpdateUserSave(p)

Registrations(p) ==
    \/ \E body \in Bodies({""}) : CreateUserFind(p, body, MaxNonce)
    \/ CreateUserCreate(p, TRUE)

NextUpdate ==
    \/ \E p \in Procs : Registrations(p)
    \/ \E p \in Procs : UpdateCalls(p, {""})

SpecUpdate == Init /\ [][NextUpdate]_vars

(* the role a body asks for: none, or one above the default *)
AskedRoles == {"", "admin"}

(* every operation of the service, one call after the other, with a mail   *)
(* transport that may fail and bodies that may carry a role                *)
NextSeq ==
    \/ \E d \in SvcJumps : Tick(d, MaxSvcTicks)
    \/ Service("r1", FALSE, BOOLEAN, AskedRoles)
    \/ UpdateCalls("r1", AskedRoles)

SpecSeq == Init /\ [][NextSeq]_vars

(***************************************************************************)
(* Properties of the middlewares.                                          *)
(***************************************************************************)
RECURSIVE DecimalDigits(_)
DecimalDigits(n) ==
    IF n < 10 THEN <<Digits[n + 1]>> ELSE DecimalDigits(n \div 10) \o <<Digits[(n % 10) + 1]>>

(* String(id): the text of an id, whatever its type *)
IdText(id) == IF id.t = "number" THEN DecimalDigits(id.v) ELSE id.v

(* the token's subject is the user the path names *)
SameId(tokenId, pathId) == tokenId.t \in {"number", "string"} /\ IdText(tokenId) = pathId

Decided(handler) == handler \in req.passed \/ req.by = handler

NoIdentity == req.userId = Undefined /\ req.userEmail = "" /\ req.userRole = ""

Answered(handler, status, message) ==
    /\ req.by = handler
    /\ res = [status |-> status, message |-> message]
    /\ req.invoked = ""

(* C1: authorize lets an authenticated request through to the controller   *)
(* exactly when the token role is 'admin' or the token's subject id is the *)
(* id of the path; otherwise it answers 403 and the controller never runs. *)
C1_AuthorizeOwnerOrAdmin ==
    Decided("authorize") =>
        IF req.userRole = "admin" \/ SameId(req.userId, req.id)
        THEN "authorize" \in req.passed
        ELSE /\ Answered("authorize", 403, "No tienes permiso para acceder a este recurso")
             /\ "authorize" \notin req.passed

(* what the server knows of the presented token *)
IssueOf(token) == CHOOSE i \in issued : i.token = token

BearerToken == req.header.present /\ req.header.prefix = "Bearer "

(* C8: authenticate sorts every Authorization header into one of four      *)
(* outcomes: no 'Bearer ' header gives 401 'Token no proporcionado'; a     *)
(* token of the server past its expiry gives 401 'Token expirado'; any     *)
(* other token that does not verify gives 401 'Token inválido'; otherwise  *)
(* the identity of the token is attached and the next handler runs.  In    *)
(* the three failures nothing is attached and the next handler never runs. *)
C8_AuthenticateOutcomes ==
    Decided("authenticate") =>
        IF ~BearerToken
        THEN Answered("authenticate", 401, "Token no proporcionado") /\ NoIdentity
        ELSE IF req.header.token \notin IssuedTokens
        THEN Answered("authenticate", 401, "Token inválido") /\ NoIdentity
        ELSE IF req.at >= IssueOf(req.header.token).at + SessionTTL
        THEN Answered("authenticate", 401, "Token expirado") /\ NoIdentity
        ELSE /\ "authenticate" \in req.passed
             /\ req.userId = IssueOf(req.header.token).userId
             /\ req.userEmail = IssueOf(req.header.token).email
             /\ req.userRole = IssueOf(req.header.token).role

C8_Witness ==
    /\ Answered("authenticate", 401, "Token expirado")
    /\ req.header.token \in IssuedTokens

(* C9: a token made by generateToken(id, email, role) at second t is       *)
(* accepted at every second before t + 24h with exactly the claims it was  *)
(* made with, and rejected as expired from t + 24h on.                     *)
C9_SessionWindow ==
    \A i \in issued :
        (Decided("authenticate") /\ BearerToken /\ req.header.token = i.token) =>
            IF req.at < i.at + 24 * 60 * 60
            THEN /\ "authenticate" \in req.passed
                 /\ req.userId = i.userId /\ req.userEmail = i.email /\ req.userRole = i.role
            ELSE Answered("authenticate", 401, "Token expirado")

(* accepted in the last second of the window, issued within a second *)
C9_Witness ==
    \E i \in issued :
        /\ "authenticate" \in req.passed
        /\ req.header.token = i.token
        /\ req.at = i.at + 24 * 60 * 60 - 1

(* C10: a token that is none of the tokens the server issued never         *)
(* authenticates: the answer is 401 'Token inválido' and no identity is    *)
(* taken from it.                                                          *)
C10_ForgedTokenRejected ==
    (Decided("authenticate") /\ BearerToken /\ req.header.token \notin IssuedTokens) =>
        /\ Answered("authenticate", 401, "Token inválido")
        /\ "authenticate" \notin req.passed
        /\ NoIdentity

(* a token of the server with its role rewritten to admin was presented *)
C10_Witness ==
    /\ Decided("authenticate") /\ BearerToken
    /\ req.header.token.wf
    /\ req.header.token \notin IssuedTokens
    /\ req.header.token.payload.role = "admin"
    /\ req.header.token.sig.key = JWT_SECRET

(* C2: a user who registered, redeemed the verification token and logged   *)
(* in holds a token with which PUT and DELETE on the user's own id pass    *)
(* authorize, and which on any other id, the role not being admin, is      *)
(* answered 403.                                                           *)
C2_OwnerPassesOthersDenied ==
    \A i \in issued :
        (Decided("authorize") /\ req.header = Header("Bearer ", i.token)
            /\ i.userId.v \in verifiedBy) =>
            IF req.id = IdText(i.userId)
            THEN "authorize" \in req.passed
            ELSE i.role # "admin" =>
                    Answered("authorize", 403, "No tienes permiso para acceder a este recurso")

(***************************************************************************)
(* Properties of the UserService.                                          *)
(***************************************************************************)
Redeemed == {n \in AllNonces : redeemCount[n] > 0}

Redemptions == {"verifyEmail", "resetPassword"}

InvalidOrExpired(op) ==
    IF op = "verifyEmail"
    THEN Throw("Token de verificación inválido o expirado", 400)
    ELSE Throw("Token de reset inválido o expirado", 400)

(* a call that began and answered in this step, without a write *)
AnsweredAtLookup == last' # last /\ calls' = calls

(* C3: once verifyEmail(value) or resetPassword(value, p) has succeeded,   *)
(* every call made afterwards with the same value fails with the 400       *)
(* invalid-or-expired error of its kind and leaves the collection as it    *)
(* was: no such call gets past its lookup.                                 *)
C3_SingleUse ==
    [][ /\ \A p \in Procs :
              (calls[p].pc = "idle" /\ calls'[p].op \in Redemptions)
                  => calls'[p].token \notin Redeemed
        /\ (AnsweredAtLookup /\ last'.op \in Redemptions /\ last'.token \in Redeemed)
              => (last'.result = InvalidOrExpired(last'.op) /\ users' = users) ]_vars

C3_Witness ==
    /\ last.op \in Redemptions
    /\ last.token \in Redeemed
    /\ last.result = InvalidOrExpired(last.op)

(* C4: of the calls that present the same pending token value, however     *)
(* they interleave, at most one reports success.                           *)
C4_AtMostOneRedemption == \A n \in Nonces : redeemCount[n] <= 1

(* C5: login for an identity whose e-mail is not verified fails with the   *)
(* 403 error and gives no token, the password being right or not; no       *)
(* login succeeds for an identity before a verifyEmail for it succeeded.   *)
C5_LoginNeedsVerifiedEmail ==
    last.op = "login" =>
        /\ last.result.ok => last.uid \in verifiedBy
        /\ \A u \in users :
              (u.id = last.uid /\ ~u.isEmailVerified) =>
                  last.result =
                      Throw("Por favor verifica tu email antes de iniciar sesión", 403)

(* the right password, the e-mail not verified *)
C5_Witness ==
    /\ last.op = "login"
    /\ \E u \in users :
          /\ u.id = last.uid /\ ~u.isEmailVerified
          /\ BcryptCompare(last.password, u.password)
    /\ last.result.status = 403

UniformResetAnswer ==
    Return(200, "Si el email existe, recibirás un enlace de reset", NoDTO, Garbage)

(* C6: requestPasswordReset answers the same, success and message, whether *)
(* or not an identity has the e-mail; when none has, no document changes   *)
(* and no mail is sent.                                                    *)
C6_ResetRequestUniform ==
    /\ [](last.op = "requestPasswordReset" => last.result = UniformResetAnswer)
    /\ [][(AnsweredAtLookup /\ last'.op = "requestPasswordReset" /\ last'.uid = NoUser.id)
              => (users' = users /\ outbox' = outbox /\ nextNonce' = nextNonce)]_vars

C6_Witness ==
    /\ last.op = "requestPasswordReset"
    /\ last.uid = NoUser.id
    /\ last.result.ok
    /\ users # {}

ResendAnswer == Return(200, "Email de verificación reenviado", NoDTO, Garbage)

(* C7 as claimed: resendVerificationEmail answers the same success for an  *)
(* e-mail no identity has as for the e-mail of an unverified identity.     *)
C7_ResendUniform ==
    (last.op = "resendVerificationEmail" /\ (last.uid = NoUser.id \/ last.result.ok))
        => last.result = ResendAnswer

(* C7 amended: resendVerificationEmail tells the cases apart: 404 'Usuario *)
(* no encontrado' when no identity has the e-mail, 400 when the identity   *)
(* is verified already, the success answer otherwise.                      *)
C7_ResendTellsAbsence ==
    last.op = "resendVerificationEmail" =>
        IF last.uid = NoUser.id
        THEN last.result = Throw("Usuario no encontrado", 404)
        ELSE IF last.result.ok
        THEN last.result = ResendAnswer
        ELSE last.result = Throw("El email ya está verificado", 400)

C7_Witness ==
    /\ last.op = "resendVerificationEmail"
    /\ last.uid = NoUser.id
    /\ last.result.status = 404
    /\ users # {}

(* C11: login succeeds exactly when a document has the e-mail, its e-mail  *)
(* is verified and the password matches the stored hash; the token of a    *)
(* successful login verifies and carries exactly the stored id, e-mail and *)
(* role of that document.                                                  *)
C11_LoginTokenOfStoredIdentity ==
    [][ (AnsweredAtLookup /\ last'.op = "login") =>
          LET u == Stored(last'.uid)
              v == JwtVerify(last'.result.token, JWT_SECRET, ClockTimestamp(now))
          IN  /\ last'.result.ok <=>
                    /\ u # NoUser
                    /\ u.isEmailVerified
                    /\ BcryptCompare(last'.password, u.password)
              /\ last'.result.ok =>
                    /\ v.ok
                    /\ v.decoded.id = Str(u.id)
                    /\ v.decoded.email = u.email
                    /\ v.decoded.role = u.role ]_vars

C11_Witness ==
    /\ last.op = "login"
    /\ last.result.ok
    /\ last.result.token.payload.id = Str(last.uid)
    /\ Stored(last.uid).isEmailVerified

(***************************************************************************)
(* Properties of the tokens stored on the document.                        *)
(***************************************************************************)
KindOf(op) == IF op \in {"verifyEmail", "createUser", "resendVerificationEmail"}
              THEN "verification" ELSE "reset"

StoredToken(u, kind) ==
    IF kind = "verification" THEN u.emailVerificationToken ELSE u.passwordResetToken

StoredExpires(u, kind) ==
    IF kind = "verification" THEN u.emailVerificationTokenExpires
    ELSE u.passwordResetTokenExpires

(* values mailed to an identity that now holds another value of the kind *)
Superseded(kind) ==
    {m.token : m \in {x \in outbox : x.kind = kind /\
                        \E u \in users : /\ u.email = x.to
                                         /\ StoredToken(u, kind) # Null
                                         /\ StoredToken(u, kind) # x.token}}

(* a redemption call begins in this step and finds a document *)
Proceeds(p) == calls[p].pc = "idle" /\ calls'[p].pc = "save" /\ calls'[p].op \in Redemptions

(* C12: a token issued is the one stored: the value mailed is the value    *)
(* the document holds from then on, whatever it held before; a redemption  *)
(* begun with a value the identity held before a newer one was issued      *)
(* fails with the 400 error of its kind and changes nothing, and the       *)
(* redemption that finds a document presents the value stored on it.       *)
C12_NewTokenOverwrites ==
    [][ /\ \A m \in outbox' \ outbox :
              \E u \in users' : u.email = m.to /\ StoredToken(u, m.kind) = m.token
        /\ \A p \in Procs :
              Proceeds(p) =>
                  /\ calls'[p].token \notin Superseded(KindOf(calls'[p].op))
                  /\ StoredToken(Stored(calls'[p].uid), KindOf(calls'[p].op)) = calls'[p].token
        /\ (AnsweredAtLookup /\ last'.op \in Redemptions
                /\ last'.token \in Superseded(KindOf(last'.op)))
              => (last'.result = InvalidOrExpired(last'.op) /\ users' = users) ]_vars

(* the earlier reset token was presented after a newer one was issued *)
C12_Witness ==
    /\ last.op = "resetPassword"
    /\ last.token \in Superseded("reset")
    /\ last.result = InvalidOrExpired("resetPassword")

(* the document the presented value is stored on as the token of the kind *)
HolderOf(token, kind) == FindOne(users, LAMBDA u : StoredToken(u, kind) = token)

(* the document with this id after the step *)
StoredNext(uid) == FindOne(users', LAMBDA u : u.id = uid)

(* a resetPassword call begins in this step: it goes on to its write, or   *)
(* it answers at once                                                      *)
ResetBegins(p, token) ==
    /\ calls[p].pc = "idle"
    /\ \/ calls'[p].pc = "save" /\ calls'[p].op = "resetPassword" /\ calls'[p].token = token
       \/ AnsweredAtLookup /\ last'.op = "resetPassword" /\ last'.token = token

(* C13: a reset token issued at t0 and presented before t0 + 1h is taken:  *)
(* the write stores the hash of the new password, after which a login      *)
(* (the e-mail being verified) succeeds with the new password and fails    *)
(* with 401 with any other; presented after t0 + 1h it is answered the 400 *)
(* error and every password works as before.                               *)
C13_ResetPasswordScenario ==
    [][ \A p \in Procs :
          /\ \A n \in AllNonces :
                LET u == HolderOf(n, "reset")
                    t0 == u.passwordResetTokenExpires - 60 * 60 * 1000
                IN  (ResetBegins(p, n) /\ u # NoUser) =>
                        /\ now < t0 + HourMs =>
                              calls'[p].pc = "save" /\ calls'[p].uid = u.id
                        /\ now > t0 + HourMs =>
                              /\ last'.result = InvalidOrExpired("resetPassword")
                              /\ calls'[p].pc = "idle"
                              /\ \A pw \in Passwords :
                                    login(StoredNext(u.id), pw, now) = login(u, pw, now)
          /\ (calls[p].pc = "save" /\ calls[p].op = "resetPassword" /\ calls'[p].pc = "idle"
                /\ Exists(calls[p].uid)) =>
                LET u == StoredNext(calls[p].uid)
                IN  /\ last'.result.ok /\ last'.op = "resetPassword"
                    /\ u.password = BcryptHash(calls[p].password)
                    /\ u.isEmailVerified =>
                          /\ login(u, calls[p].password, now).ok
                          /\ \A pw \in Passwords \ {calls[p].password} :
                                login(u, pw, now) = Throw("Credenciales inválidas", 401)
      ]_vars

(* the password was changed, and then the new password opened a session *)
C13_Witness ==
    /\ last.op = "login"
    /\ last.result.ok
    /\ last.password = "Changed456!"
    /\ \E n \in AllNonces : redeemCount[n] > 0 /\ \E m \in outbox : m.token = n /\ m.kind = "reset"

(* how long a token of the kind lives *)
Window(kind) == IF kind = "verification" THEN 24 * 60 * 60 * 1000 ELSE 60 * 60 * 1000

Issuances == {"resendVerificationEmail", "requestPasswordReset"}

(* a document holds the presented value as its token of the kind, with an  *)
(* expiry still ahead                                                      *)
Redeemable(token, kind) ==
    \E u \in users :
        /\ StoredToken(u, kind) = token
        /\ StoredExpires(u, kind) # Null
        /\ StoredExpires(u, kind) > now

(* C14: a verification token issued at t, by createUser or by              *)
(* resendVerificationEmail, is stored with the expiry t + 24h, a reset     *)
(* token with t + 1h; a redemption goes on to its write only when a        *)
(* document holds the presented value with an expiry strictly after the    *)
(* current time, and is answered the one 400 error of its kind otherwise,  *)
(* be it for the value or for the time.                                    *)
C14_ExpiryWindows ==
    [][ /\ \A d \in users' :
              (~Exists(d.id)) =>
                  /\ d.emailVerificationTokenExpires = now + Window("verification")
                  /\ d.emailVerificationToken # Null
        /\ \A p \in Procs :
              /\ (calls[p].pc = "idle" /\ calls'[p].pc = "save" /\ calls'[p].op \in Issuances)
                    => calls'[p].newExpires = now + Window(KindOf(calls'[p].op))
              /\ (calls[p].pc = "save" /\ calls[p].op \in Issuances /\ calls'[p].pc = "idle"
                    /\ Exists(calls[p].uid))
                    => LET u == StoredNext(calls[p].uid)
                           kind == KindOf(calls[p].op)
                       IN  /\ StoredToken(u, kind) = calls[p].newToken
                           /\ StoredExpires(u, kind) = calls[p].newExpires
              /\ Proceeds(p) => Redeemable(calls'[p].token, KindOf(calls'[p].op))
        /\ (AnsweredAtLookup /\ last'.op \in Redemptions) =>
              /\ ~Redeemable(last'.token, KindOf(last'.op))
              /\ last'.result = InvalidOrExpired(last'.op) ]_vars

(* the stored value was presented at the very millisecond of its expiry *)
C14_Witness ==
    /\ last.op = "verifyEmail"
    /\ last.result = InvalidOrExpired("verifyEmail")
    /\ HolderOf(last.token, "verification") # NoUser
    /\ HolderOf(last.token, "verification").emailVerificationTokenExpires = now

(***************************************************************************)
(* Properties of registrations and updates                                 *)
(***************************************************************************)

(* C15: at every moment no two stored documents have the same email,       *)
(* however the steps of createUser, updateUser and updateProfile of        *)
(* concurrent requests interleave.                                         *)
C15_EmailUnique ==
    \A u, v \in users : u.email = v.email => u = v

(* two documents are stored, and an update that found its new e-mail free  *)
(* at the lookup was refused by the index at the write                     *)
C15_Witness ==
    /\ Cardinality(users) = 2
    /\ last.op \in Updates
    /\ last.result = ServerError("E11000 duplicate key")

(* some document other than `uid` holds the e-mail *)
HeldByAnother(email, uid) == \E u \in users : u.email = email /\ u.id # uid

(* C16: createUser with an email a stored document holds is answered 409   *)
(* 'El email ya está registrado' at its lookup, with the collection as it  *)
(* was, no token drawn and no mail sent, and goes on to User.create only   *)
(* when no document holds the email; updateUser with a new email another   *)
(* document holds is answered 409 'El email ya está en uso' at its lookup  *)
(* and leaves every document, the target included, as it was.              *)
C16_DuplicateEmailRefused ==
    [][ /\ (AnsweredAtLookup /\ last'.op = "createUser") =>
              /\ last'.result = Throw("El email ya está registrado", 409)
              /\ UNCHANGED <<users, nextNonce, nextOid, outbox>>
        /\ \A p \in Procs :
              /\ (calls[p].pc = "idle" /\ calls'[p].pc = "create")
                    => ~\E u \in users : u.email = calls'[p].email
              /\ (calls[p].pc = "idle" /\ calls'[p].pc \in {"check", "save"}
                    /\ calls'[p].op \in Updates /\ calls'[p].email # "")
                    => (calls'[p].pc = "check" <=> calls'[p].email # Stored(calls'[p].uid).email)
              /\ (calls[p].pc = "check" /\ calls'[p].pc # "check"
                    /\ HeldByAnother(calls[p].email, calls[p].uid))
                    => /\ calls'[p].pc = "idle"
                       /\ last'.op = calls[p].op
                       /\ last'.uid = calls[p].uid
                       /\ last'.result = Throw("El email ya está en uso", 409)
                       /\ users' = users ]_vars

(* an update of a stored document asked for the e-mail of the other one   *)
(* and was answered 409                                                    *)
C16_Witness ==
    /\ Cardinality(users) = 2
    /\ last.op \in Updates
    /\ Exists(last.uid)
    /\ last.result = Throw("El email ya está en uso", 409)

(* C17: no operation a client can call changes the role of a stored        *)
(* document: over every step of updateUser, updateProfile, verifyEmail,    *)
(* resendVerificationEmail, requestPasswordReset, resetPassword and login, *)
(* whatever the body carries, each document keeps the role it was created  *)
(* with.                                                                   *)
C17_RoleNeverChanges ==
    [][ \A u \in users : \A v \in users' : u.id = v.id => v.role = u.role ]_vars

(* an update whose body carried role 'admin' succeeded, and the document   *)
(* still has the role it was created with                                  *)
C17_Witness ==
    /\ last.op \in Updates
    /\ last.result.ok
    /\ last.role = "admin"
    /\ Stored(last.uid).role = "user"

(* C18: a registration whose body asks for role r stores a document with   *)
(* role r, and one whose body has no role stores a document with role      *)
(* 'user'.                                                                 *)
C18_RegistrationHonoursRole ==
    (last.op = "createUser" /\ last.result.ok) =>
        Stored(last.uid).role = (IF last.role = "" THEN "user" ELSE last.role)

(***************************************************************************)
(* Properties of the mail                                                  *)
(***************************************************************************)

(* the step writes the collection and no message leaves: the transport     *)
(* failed                                                                  *)
WritesWithoutMail(p, op, pc) ==
    /\ calls[p].op = op /\ calls[p].pc = pc /\ calls'[p].pc = "idle"
    /\ users' # users
    /\ outbox' = outbox

(* C19: when the mail transport fails, createUser still stores the         *)
(* document and returns it with 201, and resendVerificationEmail and       *)
(* requestPasswordReset still store the new token with its expiry and      *)
(* answer success; the send methods return false and do not throw.         *)
C19_MailFailureSwallowed ==
    [][ /\ \A delivered \in BOOLEAN :
              /\ sendVerificationEmail(delivered) = [value |-> delivered, threw |-> FALSE]
              /\ sendPasswordResetEmail(delivered) = [value |-> delivered, threw |-> FALSE]
        /\ \A p \in Procs :
              /\ WritesWithoutMail(p, "createUser", "create") =>
                    /\ last'.result.ok /\ last'.result.status = 201
                    /\ \E d \in users' \ users :
                          /\ d.email = calls[p].email
                          /\ last'.result.user = UserResponseDTO(d)
              /\ \A op \in Issuances :
                    WritesWithoutMail(p, op, "save") =>
                       /\ last'.op = op
                       /\ last'.result.ok /\ last'.result.status = 200
                       /\ StoredToken(StoredNext(calls[p].uid), KindOf(op)) = calls[p].newToken
                       /\ StoredExpires(StoredNext(calls[p].uid), KindOf(op)) = calls[p].newExpires
      ]_vars

(* a reset was asked for, the mail did not leave, the call answered        *)
(* success and the document holds the token                                *)
C19_Witness ==
    /\ last.op = "requestPasswordReset"
    /\ last.result.ok
    /\ Exists(last.uid)
    /\ Stored(last.uid).passwordResetToken # Null
    /\ ~\E m \in outbox : m.token = Stored(last.uid).passwordResetToken

(***************************************************************************)
(* Properties of the listing route                                         *)
(***************************************************************************)

C22_GetUserByIdNeedsToken ==
    req.invoked = "getUserById" => "authenticate" \in req.passed

ProtectedRoutes == {"GET /profile/me", "PUT /profile/me", "PUT /:id", "DELETE /:id"}

(* the request carries a token of the server that has not expired *)
ValidToken ==
    /\ BearerToken
    /\ req.header.token \in IssuedTokens
    /\ req.at < IssueOf(req.header.token).at + SessionTTL

(* C23: on GET and PUT /profile/me, PUT /:id and DELETE /:id the           *)
(* controller runs only after authenticate has passed the same request,    *)
(* and on PUT and DELETE /:id only after authorize, which itself runs only *)
(* after authenticate, has passed it too; a request without a valid token  *)
(* is answered 401 by authenticate and its controller, the only handler    *)
(* that reads or writes the collection, never runs.                        *)
C23_MiddlewareOrder ==
    req.route \in ProtectedRoutes =>
        /\ req.invoked # "" =>
              /\ "authenticate" \in req.passed
              /\ ValidToken
              /\ HasIdParam(req.route) => "authorize" \in req.passed
        /\ Decided("authorize") => "authenticate" \in req.passed
        /\ (Decided("authenticate") /\ ~ValidToken) =>
              /\ req.by = "authenticate"
              /\ res.status = 401
              /\ req.passed = {}
              /\ req.invoked = ""

(* a delete went through authenticate and authorize to its controller *)
C23_Witness ==
    /\ req.route = "DELETE /:id"
    /\ req.invoked = "deleteUser"
    /\ req.passed = {"authenticate", "authorize"}

(***************************************************************************)
(* Properties of the answers                                               *)
(***************************************************************************)

(* the fields of a document that no answer may carry *)
SecretFields == {"password", "emailVerificationToken", "passwordResetToken"}

(* C24: the UserResponseDTO of every stored document carries the           *)
(* document's email and role and not its password hash, and the user of    *)
(* every successful answer carries neither the password hash nor the       *)
(* verification token nor the reset token.                                 *)
C24_ResponseDTO ==
    /\ \A u \in users :
          LET dto == UserResponseDTO(u)
          IN  /\ "email" \in DOMAIN dto /\ dto.email = u.email
              /\ "role" \in DOMAIN dto /\ dto.role = u.role
              /\ "password" \notin DOMAIN dto
    /\ last.result.ok => DOMAIN last.result.user \cap SecretFields = {}

(***************************************************************************)
(* Properties of concurrent reset requests                                 *)
(***************************************************************************)

(* the call of request p writes its reset token in this step *)
ResetTokenWrite(p) ==
    /\ calls[p].op = "requestPasswordReset" /\ calls[p].pc = "save"
    /\ calls'[p].pc = "idle"
    /\ Exists(calls[p].uid)

(* the reset tokens mailed to the address of the document *)
MailedResets(u) == {m.token : m \in {x \in outbox : x.kind = "reset" /\ x.to = u.email}}

(* C25: concurrent requestPasswordReset calls for one identity resolve as  *)
(* last write wins: each write stores the value and the expiry of the      *)
(* writing call together, whatever another call stored or is about to      *)
(* store; once the calls are over, the stored token is the value of one of *)
(* them with that call's expiry; a resetPassword goes on to its write only *)
(* with the stored value, and with the value of the other call it is       *)
(* answered 400.                                                           *)
C25_LastWriteWins ==
    [][ /\ \A p \in Procs :
              /\ ResetTokenWrite(p) =>
                    /\ StoredNext(calls[p].uid).passwordResetToken = calls[p].newToken
                    /\ StoredNext(calls[p].uid).passwordResetTokenExpires = calls[p].newExpires
              /\ (Proceeds(p) /\ calls'[p].op = "resetPassword") =>
                    /\ Stored(calls'[p].uid).passwordResetToken = calls'[p].token
                    /\ Stored(calls'[p].uid).passwordResetTokenExpires > now
        /\ \A u \in users :
              (u.passwordResetToken # Null /\ \A p \in Procs : calls[p].pc = "idle") =>
                  /\ u.passwordResetToken \in MailedResets(u)
                  /\ u.passwordResetTokenExpires # Null
                  /\ now < u.passwordResetTokenExpires =>
                        Redeemable(u.passwordResetToken, "reset")
                  /\ \A n \in MailedResets(u) \ {u.passwordResetToken} :
                        ~Redeemable(n, "reset")
        /\ (AnsweredAtLookup /\ last'.op = "resetPassword") =>
              /\ ~Redeemable(last'.token, "reset")
              /\ last'.result = Throw("Token de reset inválido o expirado", 400)
      ]_vars

(* two calls for the identity are over, the token drawn first was written  *)
(* last and is the one stored, and a reset with the other value was        *)
(* answered 400                                                            *)
C25_Witness ==
    /\ \A p \in Procs : calls[p].pc = "idle"
    /\ \E u \in users :
          /\ u.passwordResetToken # Null
          /\ \E n \in MailedResets(u) : n > u.passwordResetToken
          /\ last.op = "resetPassword"
          /\ last.token \in MailedResets(u) \ {u.passwordResetToken}
          /\ last.result = Throw("Token de reset inválido o expirado", 400)

(***************************************************************************)
(* Properties of a session across changes of its identity                  *)
(***************************************************************************)

(* the identity of the session as the collection has it now *)
Subject(i) == Stored(IdText(i.userId))

(* C26: the middlewares decide from the token and the clock alone: a       *)
(* token of a login is accepted by authenticate, with the id, email and    *)
(* role it was made with, at every moment before its 24h expiry and        *)
(* refused as expired from then on, whether or not the identity has since  *)
(* changed its email, had its password reset or been deleted; and          *)
(* authorizeRole decides from the role of the token.                       *)
C26_StatelessSnapshot ==
    \A i \in issued :
        (Decided("authenticate") /\ req.header = Header("Bearer ", i.token)) =>
            IF req.at < i.at + SessionTTL
            THEN /\ "authenticate" \in req.passed
                 /\ req.userId = i.userId /\ req.userEmail = i.email /\ req.userRole = i.role
                 /\ Decided("authorizeRole") =>
                       ("authorizeRole" \in req.passed <=> i.role = "admin")
            ELSE Answered("authenticate", 401, "Token expirado")

(* the token of a deleted identity passed authenticate *)
C26_Witness ==
    \E i \in issued :
        /\ req.header = Header("Bearer ", i.token)
        /\ "authenticate" \in req.passed
        /\ req.userEmail = i.email
        /\ Subject(i) = NoUser

(***************************************************************************)
(* Properties of the verified flag                                         *)
(***************************************************************************)

(* C27: in every state a document with isEmailVerified = true has no       *)
(* verification token and no expiry of one, however verifyEmail and        *)
(* resendVerificationEmail interleave; and resendVerificationEmail for a   *)
(* verified identity has 400 for its answer.                               *)
C27_VerifiedHasNoToken ==
    /\ \A u \in users :
          u.isEmailVerified =>
              /\ u.emailVerificationToken = Null
              /\ u.emailVerificationTokenExpires = Null
    /\ \A u \in users :
          u.isEmailVerified =>
              resendVerificationEmailCheck(u) = Throw("El email ya está verificado", 400)

(* C28: isEmailVerified only ever goes from false to true: over every step *)
(* a document that is verified and persists is still verified, also when   *)
(* updateUser or updateProfile gives it an e-mail that was never verified, *)
(* and whatever write of another request lands after the verification.     *)
C28_VerifiedMonotonic ==
    [][ \A u \in users : \A v \in users' :
            (u.id = v.id /\ u.isEmailVerified) => v.isEmailVerified ]_vars

(* the e-mail of a verified identity was changed to another address, and   *)
(* the identity is still verified                                          *)
C28_Witness ==
    /\ last.op \in Updates
    /\ last.result.ok
    /\ Exists(last.uid)
    /\ Stored(last.uid).email = "bob@example.com"
    /\ Stored(last.uid).isEmailVerified

(***************************************************************************)
(* Properties of the order of the checks of login                          *)
(***************************************************************************)

(* a login is answered in this step *)
LoginAnswered == last' # last /\ last'.op = "login"

(* C29: login checks existence, then the verified flag, then the password: *)
(* for a stored unverified identity the answer is the 403 'verifica tu     *)
(* email' error whatever the password, right or wrong; an e-mail that is   *)
(* not stored and a wrong password for a verified identity get one and the *)
(* same 401 'Credenciales inválidas' error.                                *)
C29_LoginCheckOrder ==
    [][ LoginAnswered =>
          LET u == Stored(last'.uid)
          IN  /\ u = NoUser => last'.result = Throw("Credenciales inválidas", 401)
              /\ (u # NoUser /\ ~u.isEmailVerified) =>
                    /\ last'.result =
                          Throw("Por favor verifica tu email antes de iniciar sesión", 403)
                    /\ \A pw \in Passwords : login(u, pw, now) = last'.result
              /\ (u # NoUser /\ u.isEmailVerified
                    /\ u.password # BcryptHash(last'.password)) =>
                    /\ last'.result = Throw("Credenciales inválidas", 401)
                    /\ last'.result = login(NoUser, last'.password, now) ]_vars

(* a wrong password for an unverified identity was answered 403 *)
C29_Witness ==
    /\ last.op = "login"
    /\ Exists(last.uid)
    /\ ~Stored(last.uid).isEmailVerified
    /\ Stored(last.uid).password # BcryptHash(last.password)
    /\ last.result = Throw("Por favor verifica tu email antes de iniciar sesión", 403)

(***************************************************************************)
(* Properties of what a redemption writes                                  *)
(***************************************************************************)

(* the fields a redemption of the kind assigns *)
OwnFields(op) ==
    IF op = "resetPassword"
    THEN {"password", "passwordResetToken", "passwordResetTokenExpires"}
    ELSE {"isEmailVerified", "emailVerificationToken", "emailVerificationTokenExpires"}

(* the redemption of request p writes in this step *)
RedemptionWrite(p) ==
    /\ calls[p].op \in Redemptions /\ calls[p].pc = "save"
    /\ calls'[p].pc = "idle"
    /\ Exists(calls[p].uid)

====
